---- MODULE Spec2Model ----
(***************************************************************************)
(* The item service of joel-thompson/my-go-service: the items table, the   *)
(* storage layer (storage/sql.go, storage/store.go), the HTTP handlers     *)
(* and the router built by SetupRoutes (api/server/handlers.go).           *)
(*                                                                         *)
(* Spec is the HTTP layer: the engine of SetupRoutes serving requests, and *)
(* the item handlers called on their own.  SpecStore is the Store called   *)
(* on its own; SpecList is the Store's ListItems beside other writers;     *)
(* SpecGateway is all five Store operations together, SpecFrame the same  *)
(* as time passes.  SpecConc and                                           *)
(* SpecObserve are Store calls made by requests served at the same time:   *)
(* a call is made, the database executes its statement as a whole, and the *)
(* call returns.  SpecCancel is the same with callers whose context is     *)
(* cancelled while their call waits.                                       *)
(* SpecMain is the server process of cmd/server/main.go from the moment it *)
(* listens, through a signal and srv.Shutdown, to its exit.                *)
(*                                                                         *)
(* A *string or a nullable column is a sequence of length 0 (nil / NULL)   *)
(* or 1 (the value).  An error text is a sequence of words.  A timestamp   *)
(* is a reading of the store's clock; the clock never runs backwards, and  *)
(* several statements may read the same instant.                           *)
(***************************************************************************)
EXTENDS Integers, Sequences, FiniteSets, TLC

\* ---------------------------------------------------------------- bounds
MaxIds == 2
MaxTime == 1

\* ------------------------------------------------------ program constants
DefaultLimit == 10
MaxLimit == 100
StatusOK == 200
StatusCreated == 201
StatusBadRequest == 400
StatusNotFound == 404
StatusInternalServerError == 500
\* the shutdown timeout of main, in seconds
ShutdownTimeout == 30

\* ------------------------------------------------------------- data model
Nil == << >>
Ptr(s) == << s >>

UUIDs == 1..MaxIds
Times == 0..MaxTime
Names == {"", "a", "b"}
Descriptions == {"", "d"}
OptNames == {Nil} \cup {Ptr(n) : n \in Names}
OptDescriptions == {Nil} \cup {Ptr(d) : d \in Descriptions}

\* storage.Item: one row of the items table
Item(id, name, description, created_at, updated_at) ==
  [id |-> id, name |-> name, description |-> description,
   created_at |-> created_at, updated_at |-> updated_at]

\* ----------------------------------------------------------------- errors
NoErr == [src |-> "nil", text |-> << >>]
ErrNoRows == [src |-> "sql", text |-> <<"sql:", "no", "rows", "in", "result", "set">>]
ErrItemNotFound == [src |-> "fmt", text |-> <<"item", "not", "found">>]
\* what the driver can report when a statement fails
DriverErrors ==
  { [src |-> "driver", text |-> <<"context", "deadline", "exceeded">>],
    [src |-> "driver", text |-> <<"lookup", "db:", "host", "not", "found">>] }

\* strings.Contains(text, sub), on words
Contains(text, sub) ==
  \E i \in 0..(Len(text) - Len(sub)) :
    \A j \in 1..Len(sub) : text[i + j] = sub[j]

\* ------------------------------------------------------- SQL statements
\* mutant of Coalesce: an empty string taken for NULL, as in
\* COALESCE(NULLIF($3, ''), description)
CoalesceEmptyAsNull(a, b) == IF a # Nil /\ a # Ptr("") THEN a ELSE b

\* mutant of Coalesce: the arguments the other way round, as in
\* COALESCE(name, $2)
CoalesceColumnFirst(a, b) == IF b # Nil THEN b ELSE a

\* COALESCE(a, b): the first argument that is not NULL
Coalesce(a, b) == IF a # Nil THEN a ELSE b

\* mutant of CreateItemQuery: updated_at without its DEFAULT NOW(), left at
\* the zero time
CreateItemQueryNoUpdatedAt(id, t, name, description) ==
  Item(id, name, description, t, 0)

\* INSERT INTO items (name, description) VALUES ($1, $2) RETURNING ...
\* id DEFAULT gen_random_uuid(), created_at and updated_at DEFAULT NOW()
CreateItemQuery(id, t, name, description) ==
  Item(id, name, description, t, t)

\* mutant of GetItemQuery: the WHERE clause left out
GetItemQueryNoWhere(tbl, id) == tbl

\* SELECT ... FROM items WHERE id = $1
GetItemQuery(tbl, id) == {r \in tbl : r.id = id}

\* mutant of UpdateItemQuery: updated_at = NOW() left out of the SET list
UpdateItemQueryStale(r, t, name, description) ==
  Item(r.id, Coalesce(name, Ptr(r.name))[1],
       Coalesce(description, r.description), r.created_at, r.updated_at)

\* mutant of UpdateItemQuery: created_at = NOW() added to the SET list
UpdateItemQueryResetsCreated(r, t, name, description) ==
  Item(r.id, Coalesce(name, Ptr(r.name))[1],
       Coalesce(description, r.description), t, t)

\* mutant of UpdateItemQuery: description = $3 without COALESCE
UpdateItemQueryOverwrites(r, t, name, description) ==
  Item(r.id, Coalesce(name, Ptr(r.name))[1], description, r.created_at, t)

\* mutant of UpdateItemQuery: description left out of the SET list
UpdateItemQueryNameOnly(r, t, name, description) ==
  Item(r.id, Coalesce(name, Ptr(r.name))[1], r.description, r.created_at, t)

\* UPDATE items SET name = COALESCE($2, name),
\*   description = COALESCE($3, description), updated_at = NOW()
\* applied to one matching row
UpdateItemQuery(r, t, name, description) ==
  Item(r.id, Coalesce(name, Ptr(r.name))[1],
       Coalesce(description, r.description), r.created_at, t)

\* mutant of DeleteItemQuery: the WHERE clause left out
DeleteItemQueryNoWhere(tbl, id) == tbl

\* DELETE FROM items WHERE id = $1 RETURNING ...: the rows removed
DeleteItemQuery(tbl, id) == {r \in tbl : r.id = id}

\* mutant of CountItemsQuery: SELECT COUNT(description), which skips NULLs
CountDescriptions(tbl) == Cardinality({r \in tbl : r.description # Nil})

\* SELECT COUNT(*) FROM items
CountItemsQuery(tbl) == Cardinality(tbl)

\* mutant of NewestFirst: ORDER BY created_at without DESC
OldestFirst(tbl) ==
  {s \in [1..Cardinality(tbl) -> tbl] :
     /\ \A i, j \in 1..Cardinality(tbl) : i # j => s[i] # s[j]
     /\ \A i, j \in 1..Cardinality(tbl) :
          i < j => s[i].created_at <= s[j].created_at}

\* every arrangement of the table that ORDER BY created_at DESC allows:
\* rows of equal created_at come in an order the statement does not fix
NewestFirst(tbl) ==
  {s \in [1..Cardinality(tbl) -> tbl] :
     /\ \A i, j \in 1..Cardinality(tbl) : i # j => s[i] # s[j]
     /\ \A i, j \in 1..Cardinality(tbl) :
          i < j => s[i].created_at >= s[j].created_at}

Min(a, b) == IF a < b THEN a ELSE b

\* mutant of Window: OFFSET $2 left out
WindowNoOffset(ord, limit, offset) ==
  [k \in 1..Min(limit, Len(ord)) |-> ord[k]]

\* LIMIT $1 OFFSET $2 of an ordered result
Window(ord, limit, offset) ==
  [k \in 1..(Min(offset + limit, Len(ord)) - offset) |-> ord[offset + k]]

\* SELECT ... FROM items ORDER BY created_at DESC LIMIT $1 OFFSET $2:
\* the results the statement may return
ListItemsQuery(tbl, limit, offset) ==
  {Window(ord, limit, offset) : ord \in NewestFirst(tbl)}

\* ------------------------------------------------------------ sqlx calls
\* mutant of GetContext: the row that was read handed back along with the
\* driver's error, as with 'return &item, err'
GetContextKeepsRow(rows, fault) ==
  IF rows = {} THEN [item |-> Nil, err |-> IF fault # NoErr THEN fault ELSE ErrNoRows]
  ELSE [item |-> Ptr(CHOOSE r \in rows : TRUE), err |-> fault]

\* db.GetContext: the driver's error, sql.ErrNoRows for an empty result,
\* else the first row
GetContext(rows, fault) ==
  IF fault # NoErr THEN [item |-> Nil, err |-> fault]
  ELSE IF rows = {} THEN [item |-> Nil, err |-> ErrNoRows]
  ELSE [item |-> Ptr(CHOOSE r \in rows : TRUE), err |-> NoErr]

\* mutant of WrapNoRows: sql.ErrNoRows passed on as it is
WrapNoRowsNot(err) == err

\* if err == sql.ErrNoRows { return nil, fmt.Errorf("item not found") }
\* return nil, err
WrapNoRows(err) == IF err = ErrNoRows THEN ErrItemNotFound ELSE err

\* mutant of EffectiveLimit: the default for a limit of 0 or less left out
EffectiveLimitNoDefault(limit) == IF limit > MaxLimit THEN MaxLimit ELSE limit

\* mutant of EffectiveLimit: the cap at 100 left out
EffectiveLimitNoCap(limit) == IF limit <= 0 THEN DefaultLimit ELSE limit

\* pagination defaults of Store.ListItems
EffectiveLimit(limit) ==
  IF limit <= 0 THEN DefaultLimit
  ELSE IF limit > MaxLimit THEN MaxLimit ELSE limit

EffectiveOffset(offset) == IF offset < 0 THEN 0 ELSE offset

\* ---------------------------------------------------------- Store methods
\* each returns the table after the call and the (*Item, error) pair
\* mutant of CreateItem: the insert takes the place of a row of the same
\* name, as with REPLACE INTO on a unique name
CreateItemReplacesSameName(tbl, id, t, req, fault) ==
  LET inserted == IF fault = NoErr
                  THEN {CreateItemQuery(id, t, req.name, req.description)}
                  ELSE {}
      replaced == IF fault = NoErr THEN {r \in tbl : r.name = req.name} ELSE {}
      got == GetContext(inserted, fault)
  IN [table |-> (tbl \ replaced) \cup inserted, item |-> got.item, err |-> got.err]

\* Store.CreateItem
CreateItem(tbl, id, t, req, fault) ==
  LET inserted == IF fault = NoErr
                  THEN {CreateItemQuery(id, t, req.name, req.description)}
                  ELSE {}
      got == GetContext(inserted, fault)
  IN [table |-> tbl \cup inserted, item |-> got.item, err |-> got.err]

\* Store.GetItem
GetItem(tbl, id, fault) ==
  LET got == GetContext(GetItemQuery(tbl, id), fault)
  IN [table |-> tbl, item |-> got.item, err |-> WrapNoRows(got.err)]

\* mutant of UpdateItem: updated_at refreshed by a statement of its own
\* that has no WHERE clause, so that it touches every row
UpdateItemTouchAll(tbl, id, t, req, fault) ==
  LET touched == IF fault = NoErr
                 THEN {[r EXCEPT !.updated_at = t] : r \in tbl} ELSE tbl
      matched == IF fault = NoErr THEN {r \in touched : r.id = id} ELSE {}
      updated == {UpdateItemQuery(r, t, req.name, req.description) : r \in matched}
      got == GetContext(updated, fault)
  IN [table |-> (touched \ matched) \cup updated,
      item |-> got.item, err |-> WrapNoRows(got.err)]

\* mutant of UpdateItem: a row written at this very instant is not written
\* again, as with AND updated_at < NOW() for a concurrency token
UpdateItemIfUnmodified(tbl, id, t, req, fault) ==
  LET matched == IF fault = NoErr
                 THEN {r \in tbl : r.id = id /\ r.updated_at < t} ELSE {}
      updated == {UpdateItemQuery(r, t, req.name, req.description) : r \in matched}
      got == GetContext(updated, fault)
  IN [table |-> (tbl \ matched) \cup updated,
      item |-> got.item, err |-> WrapNoRows(got.err)]

\* Store.UpdateItem
UpdateItem(tbl, id, t, req, fault) ==
  LET matched == IF fault = NoErr THEN {r \in tbl : r.id = id} ELSE {}
      updated == {UpdateItemQuery(r, t, req.name, req.description) : r \in matched}
      got == GetContext(updated, fault)
  IN [table |-> (tbl \ matched) \cup updated,
      item |-> got.item, err |-> WrapNoRows(got.err)]

\* mutant of DeleteItem: the row read and returned but not removed, as with
\* SELECT in place of DELETE
DeleteItemKeepsRow(tbl, id, fault) ==
  LET got == GetContext(DeleteItemQuery(tbl, id), fault)
  IN [table |-> tbl, item |-> got.item, err |-> WrapNoRows(got.err)]

\* mutant of DeleteItem: a DELETE that removes no row reported as success
DeleteItemIdempotent(tbl, id, fault) ==
  LET deleted == IF fault = NoErr THEN DeleteItemQuery(tbl, id) ELSE {}
      got == GetContext(deleted, fault)
  IN [table |-> tbl \ deleted, item |-> got.item,
      err |-> IF got.err = ErrNoRows THEN NoErr ELSE got.err]

\* Store.DeleteItem
DeleteItem(tbl, id, fault) ==
  LET deleted == IF fault = NoErr THEN DeleteItemQuery(tbl, id) ELSE {}
      got == GetContext(deleted, fault)
  IN [table |-> tbl \ deleted, item |-> got.item, err |-> WrapNoRows(got.err)]

\* ------------------------------------------------------------------ state
VARIABLES
  items,    \* the items table: a set of rows, id is the primary key
  now,      \* the store's clock, read by NOW()
  issued,   \* the ids gen_random_uuid() has produced
  pending,  \* the ListItems call between its count and its select, or Nil
  resp,     \* what the last completed call returned, and (for a call on
            \* the Store) how many statements it sent to the database
  created,  \* history: the items CreateItem returned whose ids no call has
            \* updated or deleted since
  proc,     \* the server process: where main is, the requests being
            \* served, the time since srv.Shutdown was called, whether the
            \* database handle is open, and the exit status
  calls     \* the Get, Update and Delete calls made by concurrent requests,
            \* in the order they were made: each waits for the database
            \* to execute its statement, or has returned

vars == <<items, now, issued, pending, resp, created, calls, proc>>

Faults == {NoErr} \cup DriverErrors
OneFault == {NoErr, [src |-> "driver", text |-> <<"context", "deadline", "exceeded">>]}

Init ==
  /\ items = {}
  /\ now = 0
  /\ issued = {}
  /\ pending = Nil
  /\ resp = [op |-> "none"]
  /\ created = {}
  /\ calls = << >>
  /\ proc = [pc |-> "serving", sig |-> "none", inflight |-> 0, timer |-> 0,
             dbOpen |-> TRUE, status |-> -1]

\* a write that commits while a ListItems call is between its statements
NotePending(tbl) ==
  IF pending # Nil /\ tbl # items
  THEN Ptr([pending[1] EXCEPT !.written = TRUE])
  ELSE pending

\* history: a successful update or delete of id ends the record of what
\* CreateItem returned for it
Untouched(r, id) ==
  IF r.err = NoErr THEN {c \in created : c.id # id} ELSE created

\* the store's clock advances
Tick ==
  /\ now < MaxTime
  /\ now' = now + 1
  /\ UNCHANGED <<items, issued, pending, resp, created, calls, proc>>

\* ------------------------------------------------------- handler replies
\* strings.Contains(err.Error(), "not found")
IsNotFound(err) == Contains(err.text, <<"not", "found">>)

\* the status handleCreateItem answers with after its store call
CreateStatus(err) ==
  IF err # NoErr THEN StatusInternalServerError ELSE StatusCreated

\* the status handleListItems answers with after its store call
ListStatus(err) ==
  IF err # NoErr THEN StatusInternalServerError ELSE StatusOK

\* the status handleGetItem, handleUpdateItem and handleDeleteItem answer
\* with after their store call
ItemStatus(err) ==
  IF err # NoErr
  THEN IF IsNotFound(err) THEN StatusNotFound ELSE StatusInternalServerError
  ELSE StatusOK

\* the "error" member of the JSON body that goes with the status
ErrorText(status, failed) ==
  IF status = StatusNotFound THEN "Item not found"
  ELSE IF status = StatusInternalServerError THEN failed
  ELSE ""

\* c.JSON(status, ...): a handler's answer.  request is the HTTP request the
\* router dispatched, or Nil when the handler was called without the router;
\* store is Nil when the handler returned before calling the Store, else
\* what the Store returned
HTTPResponse(handler, request, input, status, error, store) ==
  [op |-> handler, request |-> request, input |-> input, status |-> status,
   error |-> error, store |-> store]

\* where the result of Store.ListItems goes: to the caller of the Store, or
\* through handleListItems into an HTTP answer
Reply(caller, r) ==
  IF caller = Nil THEN r
  ELSE HTTPResponse("handleListItems", caller[1].request, caller[1].input,
                    ListStatus(r.err),
                    ErrorText(ListStatus(r.err), "Failed to retrieve items"),
                    Ptr(r))

\* ------------------------------------------- calls on the Store (gateway)
\* mutant of GenRandomUUID: the lowest id no row has at the moment, as from
\* a generator that hands the ids of deleted rows out again
GenRandomUUIDReuse(used) ==
  {u \in UUIDs \ {r.id : r \in items} :
     \A v \in UUIDs \ {r.id : r \in items} : u <= v}

\* gen_random_uuid(): an id never given before.  Ids are opaque, so the
\* one given is taken to be the least value not yet used.
GenRandomUUID(used) ==
  {u \in UUIDs \ used : \A v \in UUIDs \ used : u <= v}

\* a call of Store.CreateItem
StoreCreateItem(names, descriptions, faults) ==
  \E id \in GenRandomUUID(issued), name \in names, description \in descriptions,
     fault \in faults :
    LET req == [name |-> name, description |-> description]
        r == CreateItem(items, id, now, req, fault)
    IN /\ items' = r.table
       /\ issued' = IF fault = NoErr THEN issued \cup {id} ELSE issued
       /\ pending' = NotePending(r.table)
       /\ resp' = [op |-> "create", req |-> req, item |-> r.item, err |-> r.err,
                   statements |-> 1]
       /\ created' = created \cup {r.item[i] : i \in 1..Len(r.item)}
       /\ UNCHANGED <<now, calls, proc>>

StoreGetItem(faults) ==
  \E id \in UUIDs, fault \in faults :
    LET r == GetItem(items, id, fault)
    IN /\ resp' = [op |-> "get", id |-> id, item |-> r.item, err |-> r.err,
                   statements |-> 1]
       /\ UNCHANGED <<items, now, issued, pending, created, calls, proc>>

StoreUpdateItem(names, descriptions, faults) ==
  \E id \in UUIDs, name \in names, description \in descriptions,
     fault \in faults :
    LET req == [name |-> name, description |-> description]
        r == UpdateItem(items, id, now, req, fault)
    IN /\ items' = r.table
       /\ pending' = NotePending(r.table)
       /\ resp' = [op |-> "update", id |-> id, req |-> req,
                   item |-> r.item, err |-> r.err, statements |-> 1]
       /\ created' = Untouched(r, id)
       /\ UNCHANGED <<now, issued, calls, proc>>

StoreDeleteItem(faults) ==
  \E id \in UUIDs, fault \in faults :
    LET r == DeleteItem(items, id, fault)
    IN /\ items' = r.table
       /\ pending' = NotePending(r.table)
       /\ resp' = [op |-> "delete", id |-> id, item |-> r.item, err |-> r.err,
                   statements |-> 1]
       /\ created' = Untouched(r, id)
       /\ UNCHANGED <<now, issued, calls, proc>>

\* Store.ListItems up to and including its count statement; caller is Nil
\* for a call on the Store itself, else the handler the result returns to
ListItemsCount(caller, limit, offset, fault) ==
  /\ pending = Nil
  /\ IF fault # NoErr
     THEN /\ resp' = Reply(caller, [op |-> "list", reqLimit |-> limit,
                                    reqOffset |-> offset, err |-> fault,
                                    statements |-> 1])
          /\ UNCHANGED pending
     ELSE /\ pending' = Ptr([caller |-> caller,
                             reqLimit |-> limit, reqOffset |-> offset,
                             limit |-> EffectiveLimit(limit),
                             offset |-> EffectiveOffset(offset),
                             total |-> CountItemsQuery(items),
                             written |-> FALSE, statements |-> 1])
          /\ UNCHANGED resp
  /\ UNCHANGED <<items, now, issued, created, calls, proc>>

StoreListItemsCount(limits, offsets, faults) ==
  \E limit \in limits, offset \in offsets, fault \in faults :
    ListItemsCount(Nil, limit, offset, fault)

\* Store.ListItems from its select statement to its return
ListItemsSelect(faults) ==
  /\ pending # Nil
  /\ \E fault \in faults :
       LET p == pending[1] IN
       IF fault # NoErr
       THEN resp' = Reply(p.caller, [op |-> "list", reqLimit |-> p.reqLimit,
                                     reqOffset |-> p.reqOffset, err |-> fault,
                                     statements |-> p.statements + 1])
       ELSE \E rows \in ListItemsQuery(items, p.limit, p.offset) :
              resp' = Reply(p.caller,
                            [op |-> "list", reqLimit |-> p.reqLimit,
                             reqOffset |-> p.reqOffset, err |-> NoErr,
                             items |-> rows, total |-> p.total,
                             limit |-> p.limit, offset |-> p.offset,
                             written |-> p.written,
                             statements |-> p.statements + 1])
  /\ pending' = Nil
  /\ UNCHANGED <<items, now, issued, created, calls, proc>>

\* ------------------------------------------- the gateway used on its own
ValidNames == Names \ {""}

NextStore ==
  \/ Tick
  \/ StoreCreateItem(ValidNames, OptDescriptions, OneFault)
  \/ StoreGetItem(OneFault)
  \/ StoreUpdateItem(OptNames \ {Ptr("")}, OptDescriptions, OneFault)
  \/ StoreDeleteItem(OneFault)

SpecStore == Init /\ [][NextStore]_vars

\* ------------------------------- the gateway's List beside other writers
ListLimits == (-1..MaxIds) \cup {MaxLimit, MaxLimit + 1}
ListOffsets == -1..MaxIds

NextList ==
  \/ Tick
  \/ StoreCreateItem({"a"}, {Nil}, {NoErr})
  \/ StoreDeleteItem({NoErr})
  \/ StoreListItemsCount(ListLimits, ListOffsets, OneFault)
  \/ ListItemsSelect(OneFault)

SpecList == Init /\ [][NextList]_vars

\* ------------------------- all five gateway operations beside each other
NextGateway ==
  \/ StoreCreateItem({"a"}, {Nil}, OneFault)
  \/ StoreGetItem(OneFault)
  \/ StoreUpdateItem({Nil, Ptr("b")}, {Nil, Ptr("d")}, OneFault)
  \/ StoreDeleteItem(OneFault)
  \/ StoreListItemsCount({1}, {0}, OneFault)
  \/ ListItemsSelect(OneFault)

SpecGateway == Init /\ [][NextGateway]_vars

\* ------------------- the five operations beside each other, as time passes
NextFrame ==
  \/ Tick
  \/ StoreCreateItem({"a"}, {Nil}, OneFault)
  \/ StoreGetItem(OneFault)
  \/ StoreUpdateItem({Ptr("b")}, {Nil, Ptr("d")}, OneFault)
  \/ StoreDeleteItem(OneFault)
  \/ StoreListItemsCount({1}, {0}, OneFault)
  \/ ListItemsSelect(OneFault)

SpecFrame == Init /\ [][NextFrame]_vars

\* ------------------------------------------- concurrent calls on the Store
MaxCalls == 2

EmptyUpdate == [name |-> Nil, description |-> Nil]
ConcUpdates ==
  { [name |-> Ptr("a"), description |-> Nil],
    [name |-> Ptr("b"), description |-> Nil],
    [name |-> Nil, description |-> Ptr("d")] }

\* the calls whose statement the database has executed
Applied == {k \in 1..Len(calls) : calls[k].state = "returned"}

\* a request's goroutine calls Store.GetItem, UpdateItem or DeleteItem: the
\* statement is sent and the call waits in db.GetContext.  since is the
\* number of statements executed before the call was made.
StoreCall(ops, updates) ==
  /\ Len(calls) < MaxCalls
  /\ \E op \in ops, id \in UUIDs, req \in updates \cup {EmptyUpdate} :
       /\ (op = "update") = (req # EmptyUpdate)
       /\ calls' = Append(calls,
                           [op |-> op, id |-> id, req |-> req,
                            state |-> "called",
                            since |-> Cardinality(Applied), seq |-> 0, at |-> 0,
                            before |-> Nil, item |-> Nil, err |-> NoErr])
  /\ UNCHANGED <<items, now, issued, pending, resp, created, proc>>

\* the database executes the statement of a waiting call, all of it at
\* once, and db.GetContext returns.  seq is the place of the statement in
\* the order of execution, at the reading of NOW(), before the row the
\* statement found.
StoreReturn ==
  \E k \in 1..Len(calls) :
    /\ calls[k].state = "called"
    /\ LET c == calls[k]
           r == CASE c.op = "get" -> GetItem(items, c.id, NoErr)
                  [] c.op = "update" -> UpdateItem(items, c.id, now, c.req, NoErr)
                  [] c.op = "delete" -> DeleteItem(items, c.id, NoErr)
           found == {row \in items : row.id = c.id}
       IN /\ items' = r.table
          /\ pending' = NotePending(r.table)
          /\ created' = IF c.op = "get" THEN created ELSE Untouched(r, c.id)
          /\ calls' = [calls EXCEPT ![k] =
                         [c EXCEPT !.state = "returned",
                                   !.seq = Cardinality(Applied) + 1,
                                   !.at = now,
                                   !.before = IF found = {} THEN Nil
                                              ELSE Ptr(CHOOSE row \in found : TRUE),
                                   !.item = r.item,
                                   !.err = r.err]]
          /\ resp' = IF c.op = "update"
                     THEN [op |-> c.op, id |-> c.id, req |-> c.req,
                           item |-> r.item, err |-> r.err, statements |-> 1]
                     ELSE [op |-> c.op, id |-> c.id,
                           item |-> r.item, err |-> r.err, statements |-> 1]
    /\ UNCHANGED <<now, issued, proc>>

\* concurrent writers of the rows
NextConc ==
  \/ StoreCreateItem({"a"}, {Nil}, {NoErr})
  \/ StoreCall({"update", "delete"}, ConcUpdates)
  \/ StoreReturn

SpecConc == Init /\ [][NextConc]_vars

\* readers beside a writer of the rows
NextObserve ==
  \/ Tick
  \/ StoreCreateItem({"a"}, {Nil}, {NoErr})
  \/ StoreCall({"get", "update"}, {[name |-> Ptr("b"), description |-> Ptr("d")]})
  \/ StoreReturn
  \/ StoreListItemsCount({0}, {0}, {NoErr})
  \/ ListItemsSelect({NoErr})

SpecObserve == Init /\ [][NextObserve]_vars

\* ---------------------------------------------- cancellation of a call
\* ctx.Err() of a context that is done
CtxErrors ==
  { [src |-> "context", text |-> <<"context", "canceled">>],
    [src |-> "context", text |-> <<"context", "deadline", "exceeded">>] }

\* mutant of DbContext: the statement sent with context.Background(), which
\* is never done
DbContextBackground(callerDone) == FALSE

\* the ctx argument of db.GetContext is the ctx the Store method was called
\* with: it is done when the caller's is
DbContext(callerDone) == callerDone

\* the context of a request is cancelled, or its deadline expires, while
\* its call waits in db.GetContext
CtxDone ==
  \E k \in 1..Len(calls), cause \in CtxErrors :
    /\ calls[k].state = "called"
    /\ calls' = [calls EXCEPT ![k] = [@ EXCEPT !.state = "cancelled", !.err = cause]]
    /\ UNCHANGED <<items, now, issued, pending, resp, created, proc>>

\* db.GetContext returns ctx.Err() for a context that is done, and the Store
\* method returns (nil, err) with no second attempt.  The statement has not
\* taken effect ("aborted"), or the database had executed it when the
\* cancellation arrived ("aborted_late").
StoreAbort ==
  \E k \in 1..Len(calls), late \in BOOLEAN :
    /\ calls[k].state = "cancelled"
    /\ DbContext(TRUE)
    /\ LET c == calls[k]
           r == CASE late /\ c.op = "update" ->
                       UpdateItem(items, c.id, now, c.req, NoErr)
                  [] late /\ c.op = "delete" -> DeleteItem(items, c.id, NoErr)
                  [] OTHER -> [table |-> items, item |-> Nil, err |-> c.err]
       IN /\ items' = r.table
          /\ pending' = NotePending(r.table)
          /\ created' = IF late /\ c.op # "get" THEN Untouched(r, c.id) ELSE created
          /\ calls' = [calls EXCEPT ![k] =
                         [c EXCEPT !.state = IF late THEN "aborted_late"
                                             ELSE "aborted",
                                   !.at = now]]
          /\ resp' = IF c.op = "update"
                     THEN [op |-> c.op, id |-> c.id, req |-> c.req,
                           item |-> Nil, err |-> c.err, statements |-> 1]
                     ELSE [op |-> c.op, id |-> c.id,
                           item |-> Nil, err |-> c.err, statements |-> 1]
    /\ UNCHANGED <<now, issued, proc>>

\* calls on the Store whose callers may give up
NextCancel ==
  \/ StoreCreateItem({"a"}, {Nil}, {NoErr} \cup CtxErrors)
  \/ StoreCall({"get", "update", "delete"}, {[name |-> Ptr("b"), description |-> Nil]})
  \/ CtxDone
  \/ StoreAbort
  \/ StoreReturn

\* database/sql watches the context of a call it waits in, so a call whose
\* context is done does return; the database itself may never answer
SpecCancel == Init /\ [][NextCancel]_vars /\ WF_vars(StoreAbort)

\* ---------------------------------------------------- the server process
MaxRequests == 2

\* the process runs on, and nothing of the service's data changes
Process(next) ==
  /\ proc' = next
  /\ UNCHANGED <<items, now, issued, pending, resp, created, calls>>

\* the server takes a request: it listens from ListenAndServe until
\* srv.Shutdown closes the listeners
Accept ==
  /\ proc.pc \in {"serving", "signalled"}
  /\ proc.inflight < MaxRequests
  /\ Process([proc EXCEPT !.inflight = @ + 1])

\* a request being served is answered.  A request still being served when
\* the shutdown context expires has not finished in time.
Finish ==
  /\ proc.pc \in {"serving", "signalled", "shutdown"}
  /\ proc.inflight > 0
  /\ proc.pc = "shutdown" => proc.timer < ShutdownTimeout
  /\ Process([proc EXCEPT !.inflight = @ - 1])

\* SIGINT or SIGTERM arrives and is put on the quit channel
Signal ==
  /\ proc.pc = "serving"
  /\ \E sig \in {"SIGINT", "SIGTERM"} :
       Process([proc EXCEPT !.pc = "signalled", !.sig = sig])

\* main receives from quit, makes the context with its timeout and calls
\* srv.Shutdown, which closes the listeners
BeginShutdown ==
  /\ proc.pc = "signalled"
  /\ Process([proc EXCEPT !.pc = "shutdown", !.timer = 0])

\* a second passes while srv.Shutdown waits for requests being served
TimerTick ==
  /\ proc.pc = "shutdown"
  /\ proc.inflight > 0
  /\ proc.timer < ShutdownTimeout
  /\ Process([proc EXCEPT !.timer = @ + 1])

\* mutant of ShutdownContextDone: srv.Shutdown called with
\* context.Background(), which never expires
ShutdownContextNever(timer) == FALSE

\* context.WithTimeout(context.Background(), 30*time.Second) is done
ShutdownContextDone(timer) == timer >= ShutdownTimeout

\* srv.Shutdown returns: nil when no request is being served any more, the
\* context's error when the context expires first
ShutdownReturns ==
  /\ proc.pc = "shutdown"
  /\ IF proc.inflight = 0
     THEN Process([proc EXCEPT !.pc = "drained"])
     ELSE /\ ShutdownContextDone(proc.timer)
          /\ Process([proc EXCEPT !.pc = "forced"])

\* os.Exit(1) after "Server forced to shutdown": the deferred calls do not
\* run, and the requests being served end with the process
ExitForced ==
  /\ proc.pc = "forced"
  /\ Process([proc EXCEPT !.pc = "exited", !.status = 1])

\* main returns after "Server exited": the deferred app.Close() closes the
\* log file and the database handle
AppClose ==
  /\ proc.pc = "drained"
  /\ Process([proc EXCEPT !.pc = "closed", !.dbOpen = FALSE])

\* the process ends with main
ExitNormal ==
  /\ proc.pc = "closed"
  /\ Process([proc EXCEPT !.pc = "exited", !.status = 0])

NextMain ==
  \/ Accept
  \/ Finish
  \/ Signal
  \/ BeginShutdown
  \/ TimerTick
  \/ ShutdownReturns
  \/ ExitForced
  \/ AppClose
  \/ ExitNormal

\* main's goroutine and the timer of the shutdown context run on; when a
\* request arrives, when it is answered and when a signal comes is up to
\* the world outside
FairMain ==
  /\ WF_vars(BeginShutdown)
  /\ WF_vars(TimerTick)
  /\ WF_vars(ShutdownReturns)
  /\ WF_vars(ExitForced)
  /\ WF_vars(AppClose)
  /\ WF_vars(ExitNormal)

SpecMain == Init /\ [][NextMain]_vars /\ FairMain

\* --------------------------------------------------------- HTTP handlers
\* uuid.Parse on the :id path parameter: the id, or Nil for an error
ParseUUID(idStr) ==
  IF \E u \in UUIDs : ToString(u) = idStr
  THEN Ptr(CHOOSE u \in UUIDs : ToString(u) = idStr)
  ELSE Nil

\* c.ShouldBindJSON(&CreateItemRequest): Nil for an error.  Name is a
\* string with binding:"required": absent or null decodes to "", and ""
\* fails the validation.
BindCreate(body) ==
  IF ~body.ok THEN Nil
  ELSE LET name == IF body.name = Nil THEN "" ELSE body.name[1]
       IN IF name = "" THEN Nil
          ELSE Ptr([name |-> name, description |-> body.description])

\* c.ShouldBindJSON(&UpdateItemRequest): both fields are *string, no
\* validation tag
BindUpdate(body) ==
  IF ~body.ok THEN Nil
  ELSE Ptr([name |-> body.name, description |-> body.description])

\* c.ShouldBindQuery(&ListItemsRequest)
BindQuery(query) ==
  IF ~query.ok THEN Nil
  ELSE Ptr([limit |-> query.limit, offset |-> query.offset])

\* a handler's return before any store call
Reject(handler, request, input, error) ==
  /\ resp' = HTTPResponse(handler, request, input, StatusBadRequest, error, Nil)
  /\ UNCHANGED <<items, now, issued, pending, created, calls, proc>>

handleHealth(request) ==
  /\ resp' = HTTPResponse("handleHealth", request, Nil, StatusOK, "", Nil)
  /\ UNCHANGED <<items, now, issued, pending, created, calls, proc>>

handleHello(request) ==
  /\ resp' = HTTPResponse("handleHello", request, Nil, StatusOK, "", Nil)
  /\ UNCHANGED <<items, now, issued, pending, created, calls, proc>>

handleCreateItem(request, body, fault) ==
  LET bound == BindCreate(body) IN
  IF bound = Nil
  THEN Reject("handleCreateItem", request, body, "Invalid request format")
  ELSE \E id \in GenRandomUUID(issued) :
         LET r == CreateItem(items, id, now, bound[1], fault)
         IN /\ items' = r.table
            /\ issued' = IF fault = NoErr THEN issued \cup {id} ELSE issued
            /\ pending' = NotePending(r.table)
            /\ resp' = HTTPResponse("handleCreateItem", request, body,
                         CreateStatus(r.err),
                         ErrorText(CreateStatus(r.err), "Failed to create item"),
                         Ptr([item |-> r.item, err |-> r.err]))
            /\ created' = created \cup {r.item[i] : i \in 1..Len(r.item)}
            /\ UNCHANGED <<now, calls, proc>>

\* handleListItems up to the count statement of Store.ListItems
handleListItems(request, query, fault) ==
  LET bound == BindQuery(query) IN
  IF bound = Nil
  THEN Reject("handleListItems", request, query, "Invalid query parameters")
  ELSE ListItemsCount(Ptr([request |-> request, input |-> query]),
                      bound[1].limit, bound[1].offset, fault)

handleGetItem(request, idStr, fault) ==
  LET id == ParseUUID(idStr)
      input == [id |-> idStr]
  IN
  IF id = Nil
  THEN Reject("handleGetItem", request, input, "Invalid item ID format")
  ELSE LET r == GetItem(items, id[1], fault)
       IN /\ resp' = HTTPResponse("handleGetItem", request, input,
                       ItemStatus(r.err),
                       ErrorText(ItemStatus(r.err), "Failed to retrieve item"),
                       Ptr([item |-> r.item, err |-> r.err]))
          /\ UNCHANGED <<items, now, issued, pending, created, calls, proc>>

handleUpdateItem(request, idStr, body, fault) ==
  LET id == ParseUUID(idStr)
      bound == BindUpdate(body)
      input == [id |-> idStr, body |-> body]
  IN
  IF id = Nil
  THEN Reject("handleUpdateItem", request, input, "Invalid item ID format")
  ELSE IF bound = Nil
  THEN Reject("handleUpdateItem", request, input, "Invalid request format")
  ELSE IF bound[1].name = Nil /\ bound[1].description = Nil
  THEN Reject("handleUpdateItem", request, input,
              "At least one field (name or description) must be provided")
  ELSE LET r == UpdateItem(items, id[1], now, bound[1], fault)
       IN /\ items' = r.table
          /\ pending' = NotePending(r.table)
          /\ resp' = HTTPResponse("handleUpdateItem", request, input,
                       ItemStatus(r.err),
                       ErrorText(ItemStatus(r.err), "Failed to update item"),
                       Ptr([item |-> r.item, err |-> r.err]))
          /\ created' = Untouched(r, id[1])
          /\ UNCHANGED <<now, issued, calls, proc>>

handleDeleteItem(request, idStr, fault) ==
  LET id == ParseUUID(idStr)
      input == [id |-> idStr]
  IN
  IF id = Nil
  THEN Reject("handleDeleteItem", request, input, "Invalid item ID format")
  ELSE LET r == DeleteItem(items, id[1], fault)
       IN /\ items' = r.table
          /\ pending' = NotePending(r.table)
          /\ resp' = HTTPResponse("handleDeleteItem", request, input,
                       ItemStatus(r.err),
                       ErrorText(ItemStatus(r.err), "Failed to delete item"),
                       Ptr([item |-> r.item, err |-> r.err]))
          /\ created' = Untouched(r, id[1])
          /\ UNCHANGED <<now, issued, calls, proc>>

\* ----------------------------------------------------------------- router
\* the routes SetupRoutes registers: method, path pattern, handler
Routes ==
  { [method |-> "GET", pattern |-> <<"health">>, handler |-> "handleHealth"],
    [method |-> "GET", pattern |-> <<"hello">>, handler |-> "handleHello"],
    [method |-> "POST", pattern |-> <<"items">>, handler |-> "handleCreateItem"],
    [method |-> "GET", pattern |-> <<"items">>, handler |-> "handleListItems"] }

\* gin's match of a path against a pattern: a segment that starts with ':'
\* takes any value
Matches(pattern, path) ==
  /\ Len(pattern) = Len(path)
  /\ \A i \in 1..Len(pattern) : pattern[i] = ":id" \/ pattern[i] = path[i]

\* the handler gin dispatches the request to, or "NoRoute"
Route(routes, method, path) ==
  IF \E r \in routes : r.method = method /\ Matches(r.pattern, path)
  THEN (CHOOSE r \in routes : r.method = method /\ Matches(r.pattern, path)).handler
  ELSE "NoRoute"

\* the requests tried
IdStrings == {ToString(u) : u \in UUIDs} \cup {"junk"}
Requests ==
  { [method |-> "GET", path |-> <<"health">>],
    [method |-> "GET", path |-> <<"hello">>],
    [method |-> "POST", path |-> <<"items">>],
    [method |-> "GET", path |-> <<"items">>] }
  \cup [method : {"GET", "PUT", "DELETE"}, path : {<<"items", i>> : i \in IdStrings}]
BadJSON == [ok |-> FALSE, name |-> Nil, description |-> Nil]
CreateBodies ==
  {BadJSON} \cup [ok : {TRUE}, name : {Nil, Ptr(""), Ptr("a")},
                  description : {Nil}]
UpdateBodies ==
  {BadJSON} \cup [ok : {TRUE}, name : {Nil, Ptr("")},
                  description : {Nil, Ptr("")}]
Queries ==
  { [ok |-> FALSE, limit |-> 0, offset |-> 0],
    [ok |-> TRUE, limit |-> 0, offset |-> 0] }

\* the engine SetupRoutes returns serves one request
ServeHTTP ==
  \E request \in Requests :
    LET method == request.method
        path == request.path
        h == Route(Routes, method, path)
        id == IF Len(path) = 2 THEN path[2] ELSE ""
    IN
    CASE h = "handleHealth" -> handleHealth(Ptr(request))
      [] h = "handleHello" -> handleHello(Ptr(request))
      [] h = "handleCreateItem" ->
           \E body \in CreateBodies, fault \in OneFault :
             handleCreateItem(Ptr(request), body, fault)
      [] h = "handleListItems" ->
           \E query \in Queries, fault \in OneFault :
             handleListItems(Ptr(request), query, fault)
      [] h = "handleGetItem" ->
           \E fault \in Faults : handleGetItem(Ptr(request), id, fault)
      [] h = "handleUpdateItem" ->
           \E body \in UpdateBodies, fault \in Faults :
             handleUpdateItem(Ptr(request), id, body, fault)
      [] h = "handleDeleteItem" ->
           \E fault \in Faults : handleDeleteItem(Ptr(request), id, fault)
      [] OTHER ->
           /\ resp' = HTTPResponse("NoRoute", Ptr(request), Nil,
                                   StatusNotFound, "404 page not found", Nil)
           /\ UNCHANGED <<items, now, issued, pending, created, calls, proc>>

\* the handlers no route leads to, called with a request of their own
CallGetItem ==
  \E idStr \in IdStrings, fault \in Faults :
    handleGetItem(Nil, idStr, fault)

CallUpdateItem ==
  \E idStr \in IdStrings, body \in UpdateBodies, fault \in Faults :
    handleUpdateItem(Nil, idStr, body, fault)

CallDeleteItem ==
  \E idStr \in IdStrings, fault \in Faults :
    handleDeleteItem(Nil, idStr, fault)

Next ==
  \/ Tick
  \/ ServeHTTP
  \/ ListItemsSelect(OneFault)
  \/ CallGetItem
  \/ CallUpdateItem
  \/ CallDeleteItem

Spec == Init /\ [][Next]_vars

\* ================================================================ claims
ItemHandlers == {"handleGetItem", "handleUpdateItem", "handleDeleteItem"}

\* the last call was answered by handler h after it called the Store
Answered(h) == resp.op = h /\ resp.store # Nil

\* C1: in every reachable state every persisted item has a non-empty name,
\* whatever create, update and delete requests the handlers have served.
C1_NameNeverEmpty == \A r \in items : r.name # ""

\* C2: a get, update or delete handler that called the Store answers 404
\* exactly when the Store reported that no row matches the id, and 500 for
\* every failure of the store statement, whatever its error text.
C2_NotFoundIffNoRow ==
  \A h \in ItemHandlers :
    Answered(h) =>
      /\ resp.status = StatusNotFound <=> resp.store[1].err = ErrItemNotFound
      /\ resp.store[1].err.src = "driver" =>
           resp.status = StatusInternalServerError

\* C3: through the router of SetupRoutes, GET /items/:id is answered 400
\* for an unparsable id, 404 for a well-formed id of no item and 200 for the
\* id of an item (the store statement not failing), and PUT and DELETE
\* /items/:id reach their handlers.
C3_ItemRoutesServed ==
  \A i \in IdStrings :
    /\ ( /\ resp.op # "none"
         /\ resp.request = Ptr([method |-> "GET", path |-> <<"items", i>>])
         /\ (resp.store # Nil => resp.store[1].err.src # "driver") )
       => resp.status =
            IF ParseUUID(i) = Nil THEN StatusBadRequest
            ELSE IF \E r \in items : r.id = ParseUUID(i)[1] THEN StatusOK
            ELSE StatusNotFound
    /\ ( /\ resp.op # "none"
         /\ resp.request = Ptr([method |-> "PUT", path |-> <<"items", i>>]) )
       => resp.op = "handleUpdateItem"
    /\ ( /\ resp.op # "none"
         /\ resp.request = Ptr([method |-> "DELETE", path |-> <<"items", i>>]) )
       => resp.op = "handleDeleteItem"

\* ---------------------------------------------------- steps of the Store
\* a step that completes a call of Store.UpdateItem without error
UpdateDone ==
  /\ resp'.op = "update"
  /\ resp'.err = NoErr
  /\ <<items, resp>>' # <<items, resp>>

\* the row with the given id
RowOf(tbl, id) == CHOOSE r \in tbl : r.id = id

\* C4: Update replaces exactly the fields supplied and leaves every omitted
\* field at its persisted value; a description supplied as the empty string
\* is set to the empty string, not left unchanged.
C4_UpdateMergesByField ==
  [][UpdateDone =>
       LET old == RowOf(items, resp'.id)
           new == RowOf(items', resp'.id)
           req == resp'.req
       IN /\ new.name = IF req.name = Nil THEN old.name ELSE req.name[1]
          /\ new.description =
               IF req.description = Nil THEN old.description
               ELSE req.description
          /\ req.description = Ptr("") => new.description = Ptr("")
          /\ resp'.item = Ptr(new)]_vars

C4_Witness ==
  /\ resp.op = "update"
  /\ resp.err = NoErr
  /\ resp.req = [name |-> Nil, description |-> Ptr("")]
  /\ resp.item[1].description = Ptr("")
  /\ resp.item[1].name = "b"

\* a step that completes a call of Store.UpdateItem on an existing id, the
\* store statement not failing
UpdateOfExisting ==
  /\ resp'.op = "update"
  /\ <<items, resp>>' # <<items, resp>>
  /\ \E r \in items : r.id = resp'.id
  /\ resp'.err.src # "driver"

\* C5 as stated: an Update of an existing id succeeds, with no field
\* supplied it leaves name and description unchanged, and it strictly
\* advances updated_at.
C5_StrictlyAdvances ==
  [][UpdateOfExisting =>
       /\ resp'.err = NoErr
       /\ LET old == RowOf(items, resp'.id)
              new == RowOf(items', resp'.id)
          IN /\ resp'.req = [name |-> Nil, description |-> Nil] =>
                  new.name = old.name /\ new.description = old.description
             /\ new.updated_at > old.updated_at]_vars

\* C5 as amended: an Update of an existing id succeeds, with no field
\* supplied it leaves name and description unchanged, and it sets
\* updated_at to the store's current time, whatever the new values are;
\* updated_at is strictly later than before when the clock has advanced
\* since the row was last written.
C5_UpdateRefreshes ==
  [][UpdateOfExisting =>
       /\ resp'.err = NoErr
       /\ LET old == RowOf(items, resp'.id)
              new == RowOf(items', resp'.id)
          IN /\ resp'.req = [name |-> Nil, description |-> Nil] =>
                  new.name = old.name /\ new.description = old.description
             /\ new.updated_at = now
             /\ now > old.updated_at => new.updated_at > old.updated_at]_vars

C5_Witness ==
  /\ resp.op = "update"
  /\ resp.err = NoErr
  /\ resp.req = [name |-> Nil, description |-> Nil]
  /\ resp.item[1].updated_at > resp.item[1].created_at
  /\ resp.item[1] \in items

\* ------------------------------------------------------------------ List
\* the last call was a ListItems that returned a result
Listed == resp.op = "list" /\ resp.err = NoErr

\* C6: List uses and echoes the effective parameters: a limit of 0 or less
\* becomes 10, a limit above 100 becomes 100, an offset below 0 becomes 0,
\* other values stay; the items are those of List called with them.
C6_EffectiveParameters ==
  Listed =>
    LET limit == IF resp.reqLimit <= 0 THEN 10
                 ELSE IF resp.reqLimit > 100 THEN 100 ELSE resp.reqLimit
        offset == IF resp.reqOffset < 0 THEN 0 ELSE resp.reqOffset
    IN /\ resp.limit = limit
       /\ resp.offset = offset
       /\ resp.items \in ListItemsQuery(items, limit, offset)

C6_Witness ==
  /\ Listed
  /\ resp.reqLimit > MaxLimit
  /\ resp.limit = MaxLimit
  /\ resp.reqOffset < 0
  /\ resp.offset = 0
  /\ Len(resp.items) = MaxIds

\* the arrangements of a table from newest to oldest
C7_NewestFirst(tbl) ==
  {s \in [1..Cardinality(tbl) -> tbl] :
     /\ \A r \in tbl : \E i \in 1..Cardinality(tbl) : s[i] = r
     /\ \A i \in 1..(Cardinality(tbl) - 1) :
          s[i].created_at >= s[i + 1].created_at}

Max(a, b) == IF a > b THEN a ELSE b

\* C7: with no write between its statements, List returns the items at
\* positions offset+1 .. min(offset+limit, total) of a newest-first
\* arrangement of all items, min(limit, max(0, total - offset)) of them; an
\* offset at or beyond total gives no items and no error.
C7_WindowOfNewestFirst ==
  (Listed /\ ~resp.written) =>
    /\ resp.total = Cardinality(items)
    /\ Len(resp.items) = Min(resp.limit, Max(0, resp.total - resp.offset))
    /\ \E ord \in C7_NewestFirst(items) :
         \A k \in 1..Len(resp.items) : resp.items[k] = ord[resp.offset + k]
    /\ resp.offset >= resp.total => resp.items = << >>

C7_Witness ==
  /\ Listed
  /\ ~resp.written
  /\ resp.total = 2
  /\ resp.offset = 1
  /\ resp.limit = 1
  /\ Len(resp.items) = 1
  /\ \E r \in items : r.created_at > resp.items[1].created_at

\* C8: the total of a List is the number of rows at its count statement,
\* whatever the limit and offset, and it is the total the call returns.
C8_TotalIsRowCount ==
  [][ /\ (pending = Nil /\ pending' # Nil) =>
           pending'[1].total = Cardinality(items)
      /\ (pending # Nil /\ pending' = Nil /\ resp'.err = NoErr) =>
           resp'.total = pending[1].total ]_vars

C8_Witness ==
  /\ Listed
  /\ ~resp.written
  /\ resp.total = 2
  /\ Len(resp.items) = 1
  /\ Cardinality(items) = 2

\* C9: two List calls with the same limit and offset on an unchanged table
\* return the same sequence of items.
C9_SameOrderEveryCall ==
  [][ ( /\ Listed
        /\ resp'.op = "list" /\ resp'.err = NoErr
        /\ ~resp'.written
        /\ resp'.limit = resp.limit /\ resp'.offset = resp.offset
        /\ items' = items )
      => resp'.items = resp.items ]_vars

\* --------------------------------------------------------- Create and Get
\* C10: Get of an id that Create returned, with no Update or Delete of the
\* id in between, returns the item Create returned, equal in every field.
C10_GetReturnsCreated ==
  (resp.op = "get" /\ resp.err = NoErr) =>
    \A c \in created : c.id = resp.id => resp.item = Ptr(c)

C10_Witness ==
  /\ resp.op = "get"
  /\ resp.err = NoErr
  /\ Cardinality(items) = 2
  /\ \E c \in created :
       c.id = resp.id /\ c.description = Nil /\ resp.item = Ptr(c)

\* ----------------------------------------------------------------- Delete
\* a step that completes a call of Store.DeleteItem without error
DeleteDone ==
  /\ resp'.op = "delete"
  /\ resp'.err = NoErr
  /\ <<items, resp>>' # <<items, resp>>

\* the id was given to an item and no row has it: the item was deleted
Gone(id) == id \in issued /\ ~ \E r \in items : r.id = id

\* a step that completes a Get, Update or Delete of id, the store statement
\* not failing
ItemCallOn(id) ==
  /\ resp'.op \in {"get", "update", "delete"}
  /\ resp'.id = id
  /\ resp'.err.src # "driver"
  /\ resp' # resp

\* C11: after a successful Delete(id) the row is gone, it stays gone in
\* every later step whatever operation is called, and every later Get,
\* Update and Delete of the id yields NotFound and no item.
C11_DeletedStaysGone ==
  [][\A id \in UUIDs :
       /\ (DeleteDone /\ resp'.id = id) => Gone(id)'
       /\ Gone(id) =>
            /\ Gone(id)'
            /\ ItemCallOn(id) =>
                 resp'.err = ErrItemNotFound /\ resp'.item = Nil]_vars

C11_Witness ==
  /\ resp.op = "update"
  /\ resp.err = ErrItemNotFound
  /\ Gone(resp.id)
  /\ issued = UUIDs
  /\ items # {}

C13_NeverIssuedIsNotFound ==
  ( /\ resp.op \in {"get", "update", "delete"}
    /\ resp.id \notin issued
    /\ resp.err.src # "driver" )
  => /\ resp.err = ErrItemNotFound
     /\ resp.item = Nil
     /\ ItemStatus(resp.err) = StatusNotFound

C13_Witness ==
  /\ resp.op = "delete"
  /\ resp.id \notin issued
  /\ resp.err = ErrItemNotFound
  /\ items # {}

\* C14: a step in which a Get, Update or Delete returns 'item not found'
\* leaves the table as it was: the same rows, each with the same fields,
\* updated_at included.
C14_NotFoundChangesNothing ==
  [][(resp'.op \in {"get", "update", "delete"} /\ resp'.err = ErrItemNotFound)
       => /\ items' = items
          /\ Cardinality(items') = Cardinality(items)]_vars

C14_Witness ==
  /\ resp.op = "update"
  /\ resp.err = ErrItemNotFound
  /\ resp.req.name # Nil
  /\ \E r \in items : r.updated_at < now /\ r.name # resp.req.name[1]

\* ----------------------------------------------------------- validation
\* a create body without a usable name
NoName(body) == ~body.ok \/ body.name = Nil \/ body.name = Ptr("")

\* an update body that cannot be bound or supplies neither field
NoFields(body) == ~body.ok \/ (body.name = Nil /\ body.description = Nil)

\* the answer r is a handler's answer to input that fails validation
InvalidInput(r) ==
  \/ r.op = "handleCreateItem" /\ NoName(r.input)
  \/ r.op \in ItemHandlers /\ ParseUUID(r.input.id) = Nil
  \/ r.op = "handleUpdateItem" /\ NoFields(r.input.body)

\* the answer r is the answer to a GET, PUT or DELETE /items/:id request
\* whose id does not parse
UnparsableIdRequest(r) ==
  /\ r.op # "none"
  /\ r.request # Nil
  /\ r.request[1].method \in {"GET", "PUT", "DELETE"}
  /\ Len(r.request[1].path) = 2
  /\ r.request[1].path[1] = "items"
  /\ ParseUUID(r.request[1].path[2]) = Nil

\* C15: every request that fails validation (create without a name, an
\* unparsable id on get, update or delete, an update with neither name nor
\* description) is answered 400, no store statement is issued for it and
\* the table is unchanged.
C15_InvalidRequestsRejected ==
  [][(InvalidInput(resp') \/ UnparsableIdRequest(resp'))
       => /\ resp'.status = StatusBadRequest
          /\ resp'.store = Nil
          /\ items' = items]_vars

\* C15 on the handlers alone: a handler given input that fails validation
\* answers 400 before any call of the Store, and the table is unchanged.
C15_HandlersReject ==
  [][InvalidInput(resp')
       => /\ resp'.status = StatusBadRequest
          /\ resp'.store = Nil
          /\ items' = items]_vars

\* ------------------------------------------------- statements and results
GatewayOps == {"create", "list", "get", "update", "delete"}

\* what the call returned is a whole result and no error, or an error and
\* nothing of a result
ResultOrError(r) ==
  IF r.op = "list"
  THEN \/ r.err = NoErr /\ {"items", "total", "limit", "offset"} \subseteq DOMAIN r
       \/ r.err # NoErr /\ {"items", "total", "limit", "offset"} \cap DOMAIN r = {}
  ELSE \/ r.err = NoErr /\ r.item # Nil
       \/ r.err # NoErr /\ r.item = Nil

\* C16 as stated: every gateway call (Create, List, Get, Update, Delete)
\* issues exactly one store statement and returns either a complete result
\* or an error with no result.
C16_OneStatementPerCall ==
  resp.op \in GatewayOps =>
    resp.statements = 1 /\ ResultOrError(resp)

\* C16 as amended: Create, Get, Update and Delete issue exactly one store
\* statement per call; List issues its count statement and then, unless the
\* count failed, its select statement; every call returns either a complete
\* result or an error with no result.
C16_StatementsPerCall ==
  resp.op \in GatewayOps =>
    /\ resp.op # "list" => resp.statements = 1
    /\ resp.op = "list" =>
         /\ resp.statements \in {1, 2}
         /\ resp.err = NoErr => resp.statements = 2
    /\ ResultOrError(resp)

C16_Witness ==
  /\ resp.op = "list"
  /\ resp.err # NoErr
  /\ resp.statements = 2
  /\ items # {}

\* ------------------------------------------- List beside other writers
\* a step in which Store.ListItems runs its select statement and returns
\* a result
SelectDone ==
  /\ pending # Nil
  /\ pending' = Nil
  /\ resp'.op = "list"
  /\ resp'.err = NoErr

\* C17: the total of a List is the row count at its count statement and
\* it is kept through every write that commits before the select
\* statement; the items are the window of the table as it is at the select
\* statement.  With no write in between, the total is the row count of the
\* table the items were read from; with one, it need not be.
C17_TotalAndItemsApart ==
  [][ /\ (pending = Nil /\ pending' # Nil) =>
           /\ pending'[1].total = Cardinality(items)
           /\ ~pending'[1].written
      /\ (pending # Nil /\ pending' # Nil) =>
           /\ pending'[1].total = pending[1].total
           /\ pending'[1].written = (pending[1].written \/ items' # items)
      /\ SelectDone =>
           /\ resp'.total = pending[1].total
           /\ resp'.written = pending[1].written
           /\ \E ord \in C7_NewestFirst(items) :
                resp'.items =
                  [k \in 1..Min(resp'.limit,
                                Max(0, Cardinality(items) - resp'.offset))
                     |-> ord[resp'.offset + k]]
           /\ ~resp'.written => resp'.total = Cardinality(items) ]_vars

\* a Create committed between the two statements: more items than total
C17_Witness ==
  /\ Listed
  /\ resp.written
  /\ Len(resp.items) > resp.total
  /\ resp.offset = 1

\* ------------------------------------------------------ concurrent calls
\* calls i and j were in progress at the same time: the later made of the
\* two was made before the statement of the earlier was executed
Overlap(i, j) ==
  /\ i # j
  /\ LET a == Min(i, j)
         b == Max(i, j)
     IN calls[a].state = "called" \/ calls[b].since < calls[a].seq

\* returned calls i and j, in progress at the same time, of the given
\* operations on one id, the statement of i executed before that of j
InOrder(i, j, opi, opj) ==
  /\ Overlap(i, j)
  /\ calls[i].op = opi
  /\ calls[j].op = opj
  /\ calls[i].id = calls[j].id
  /\ calls[i].seq < calls[j].seq

\* the statement of call j was the last one executed
Last(j) == calls[j].seq = Cardinality(Applied)

\* C18: two concurrent Updates of one existing id both succeed, neither is
\* rejected for the other, and every field both supply has the value of the
\* Update executed last, in the row that Update returns and in the table.
C18_LastWriterWins ==
  \A i, j \in Applied :
    ( /\ InOrder(i, j, "update", "update")
      /\ calls[i].before # Nil
      /\ calls[j].before # Nil )
    => /\ calls[i].err = NoErr
       /\ calls[j].err = NoErr
       /\ (calls[i].req.name # Nil /\ calls[j].req.name # Nil) =>
            calls[j].item[1].name = calls[j].req.name[1]
       /\ (calls[i].req.description # Nil /\ calls[j].req.description # Nil) =>
            calls[j].item[1].description = calls[j].req.description
       /\ Last(j) => calls[j].item[1] \in items

C18_Witness ==
  /\ Applied = {1, 2}
  /\ InOrder(2, 1, "update", "update")
  /\ calls[2].req.name = Ptr("a")
  /\ calls[1].req.name = Ptr("b")
  /\ calls[2].err = NoErr
  /\ calls[1].err = NoErr
  /\ \E r \in items : r.id = calls[1].id /\ r.name = "b"

\* the returned Updates of id that found its row
UpdatesOf(id) ==
  {u \in Applied : calls[u].op = "update" /\ calls[u].id = id
                     /\ calls[u].before # Nil}

\* the row an Update leaves when all of it has taken effect: the supplied
\* fields new, the others as before, updated_at the time of the statement
PostRow(u) ==
  LET pre == calls[u].before[1]
      req == calls[u].req
  IN [id |-> pre.id,
      name |-> IF req.name = Nil THEN pre.name ELSE req.name[1],
      description |-> IF req.description = Nil THEN pre.description
                      ELSE req.description,
      created_at |-> pre.created_at,
      updated_at |-> calls[u].at]

\* the rows of id before and after each of its Updates
Versions(id) ==
  {calls[u].before[1] : u \in UpdatesOf(id)} \cup {PostRow(u) : u \in UpdatesOf(id)}

\* C19: an Update takes effect as a whole, and every Get and every List,
\* also one in progress at the same time as an Update of the id, returns
\* for an updated id the row as it was before one of its Updates or as it
\* is after one with all of that Update in it: never the new updated_at
\* with an old name or description, or the reverse.
C19_UpdateIsAtomic ==
  /\ \A u \in Applied :
       (calls[u].op = "update" /\ calls[u].before # Nil) =>
         calls[u].item = Ptr(PostRow(u))
  /\ \A g \in Applied :
       (calls[g].op = "get" /\ calls[g].item # Nil
          /\ UpdatesOf(calls[g].id) # {}) =>
         calls[g].item[1] \in Versions(calls[g].id)
  /\ (resp.op = "list" /\ resp.err = NoErr) =>
       \A k \in 1..Len(resp.items) :
         UpdatesOf(resp.items[k].id) # {} =>
           resp.items[k] \in Versions(resp.items[k].id)
  /\ \A r \in items : UpdatesOf(r.id) # {} => r \in Versions(r.id)

\* a Get made while an Update of the same id was in progress, executed
\* after it, that returns the updated row
C19_Witness ==
  /\ Applied = {1, 2}
  /\ InOrder(1, 2, "update", "get")
  /\ calls[1].before # Nil
  /\ calls[2].item = Ptr(PostRow(1))
  /\ calls[2].item[1].updated_at > calls[2].item[1].created_at
  /\ calls[2].item[1].name = "b"
  /\ calls[2].item[1].description = Ptr("d")

\* -------------------------------------------------------------------- ids
\* a step that completes a call of Store.CreateItem without error
CreateDone ==
  /\ resp'.op = "create"
  /\ resp'.err = NoErr
  /\ <<items, resp>>' # <<items, resp>>

C21_CreatedBeforeUpdated ==
  \A r \in items : r.created_at <= r.updated_at

C21_Witness ==
  /\ resp.op = "delete"
  /\ resp.err = NoErr
  /\ \E r \in items : r.created_at < r.updated_at
  /\ Cardinality(issued) = MaxIds

\* the ids of the rows of a table
Ids(tbl) == {r.id : r \in tbl}

\* C22: while an item exists its id and created_at stay what the Create
\* that made it returned: Create persists the row it returns, and no step,
\* whatever fields an Update supplies, changes the created_at of a row or
\* turns a row's id into another.
C22_IdAndCreatedAtImmutable ==
  [][ /\ \A r \in items : \A q \in items' :
           q.id = r.id => q.created_at = r.created_at
      /\ CreateDone =>
           /\ resp'.item[1] \in items'
           /\ resp'.item[1].created_at = now
      /\ UpdateDone =>
           /\ Ids(items') = Ids(items)
           /\ resp'.item[1].id = resp'.id
           /\ resp'.item[1].created_at = RowOf(items, resp'.id).created_at ]_vars

C22_Witness ==
  /\ resp.op = "update"
  /\ resp.err = NoErr
  /\ resp.req.name # Nil
  /\ resp.req.description # Nil
  /\ resp.item[1].created_at < now
  /\ resp.item[1].updated_at = now
  /\ resp.item[1] \in items

\* ------------------------------------------------------------ description
\* C25: an Update whose description is omitted (or null) leaves the
\* description as it was; a description that is present, the empty string
\* included, never becomes absent again; an item created without one has
\* none, and gets one only from an Update that supplies it.
C25_DescriptionNeverRevertsToAbsent ==
  [][ /\ \A r \in items : \A q \in items' :
           q.id = r.id =>
             /\ r.description # Nil => q.description # Nil
             /\ (r.description = Nil /\ q.description # Nil) =>
                  /\ UpdateDone
                  /\ resp'.id = r.id
                  /\ resp'.req.description = q.description
      /\ UpdateDone =>
           /\ resp'.req.description = Nil =>
                resp'.item[1].description = RowOf(items, resp'.id).description
           /\ resp'.req.description # Nil =>
                resp'.item[1].description = resp'.req.description
           /\ resp'.item[1] \in items'
      /\ CreateDone =>
           /\ resp'.item[1].description = resp'.req.description
           /\ resp'.item[1] \in items' ]_vars

\* an Update without a description of an item whose description is the
\* empty string: the row still has the empty string
C25_Witness ==
  /\ resp.op = "update"
  /\ resp.err = NoErr
  /\ resp.req.description = Nil
  /\ resp.req.name # Nil
  /\ resp.item[1].description = Ptr("")
  /\ resp.item[1] \in items
  /\ \E r \in items : r.description = Nil


\* ------------------------------------------ concurrent calls on one item
\* the request of call i supplies no field that the request of call j does
Disjoint(i, j) ==
  /\ calls[i].req.name = Nil \/ calls[j].req.name = Nil
  /\ calls[i].req.description = Nil \/ calls[j].req.description = Nil

\* no other call on the id of calls i and j had its statement executed
\* between theirs
Adjacent(i, j) ==
  \A k \in Applied \ {i, j} :
    calls[k].id = calls[i].id =>
      calls[k].seq < calls[i].seq \/ calls[k].seq > calls[j].seq

\* C26: two concurrent Updates of one existing id that supply different
\* fields both succeed, and after both the row has the field of each,
\* whichever statement was executed first.
C26_DisjointUpdatesBothApply ==
  \A i, j \in Applied :
    ( /\ InOrder(i, j, "update", "update")
      /\ calls[i].before # Nil
      /\ calls[j].before # Nil
      /\ Disjoint(i, j)
      /\ Adjacent(i, j) )
    => /\ calls[i].err = NoErr
       /\ calls[j].err = NoErr
       /\ calls[j].before = calls[i].item
       /\ \A k \in {i, j} :
            /\ calls[k].req.name # Nil =>
                 calls[j].item[1].name = calls[k].req.name[1]
            /\ calls[k].req.description # Nil =>
                 calls[j].item[1].description = calls[k].req.description
       /\ Last(j) => calls[j].item[1] \in items

\* an Update of the description executed before an Update of the name made
\* while it was in progress: the row has both
C26_Witness ==
  /\ Applied = {1, 2}
  /\ InOrder(2, 1, "update", "update")
  /\ calls[2].req = [name |-> Nil, description |-> Ptr("d")]
  /\ calls[1].req = [name |-> Ptr("b"), description |-> Nil]
  /\ calls[1].item # Nil
  /\ calls[1].item[1].name = "b"
  /\ calls[1].item[1].description = Ptr("d")
  /\ calls[1].item[1] \in items


\* C27: of two concurrent Deletes of one existing id exactly one returns
\* the item and the other fails with "item not found"; of a Delete and an
\* Update of one existing id, either the Update is executed first and
\* succeeds and the Delete returns the updated row, or the Delete is
\* executed first and succeeds and the Update fails with "item not found";
\* in every case the row is absent afterwards.
C27_DeleteRaces ==
  /\ \A i, j \in Applied :
       (InOrder(i, j, "delete", "delete") /\ calls[i].before # Nil) =>
         /\ calls[i].err = NoErr
         /\ calls[i].item = calls[i].before
         /\ calls[j].err = ErrItemNotFound
         /\ calls[j].item = Nil
  /\ \A i, j \in Applied :
       ( /\ InOrder(i, j, "update", "delete")
         /\ calls[i].before # Nil
         /\ Adjacent(i, j) ) =>
         /\ calls[i].err = NoErr
         /\ calls[j].err = NoErr
         /\ calls[j].item = calls[i].item
         /\ calls[j].item = Ptr(PostRow(i))
  /\ \A i, j \in Applied :
       (InOrder(i, j, "delete", "update") /\ calls[i].before # Nil) =>
         /\ calls[i].err = NoErr
         /\ calls[i].item = calls[i].before
         /\ calls[j].err = ErrItemNotFound
         /\ calls[j].item = Nil
  /\ \A d \in Applied :
       (calls[d].op = "delete" /\ calls[d].before # Nil) =>
         calls[d].id \notin Ids(items)

\* two Deletes of an existing id in progress at the same time, the one made
\* later executed first
C27_Witness ==
  /\ Applied = {1, 2}
  /\ InOrder(2, 1, "delete", "delete")
  /\ calls[2].before # Nil
  /\ calls[2].item = calls[2].before
  /\ calls[1].err = ErrItemNotFound
  /\ calls[1].id \notin Ids(items)
  /\ items # {}


\* ------------------------------------------------------------ other rows
\* the rows of a table with another id than the given one
Others(tbl, id) == {r \in tbl : r.id # id}

\* C28: an Update or a Delete of one id leaves every row of another id as
\* it was; a Create leaves the existing rows as they were and adds exactly
\* one row, the one it returns; a Get or a List never changes the table;
\* and nothing but a Create, an Update or a Delete does.
C28_OtherRowsUntouched ==
  [][ /\ items' # items =>
           /\ resp' # resp
           /\ resp'.op \in {"create", "update", "delete"}
           /\ resp'.err = NoErr
      /\ (resp'.op \in {"update", "delete"} /\ resp' # resp) =>
           Others(items', resp'.id) = Others(items, resp'.id)
      /\ CreateDone =>
           /\ items \subseteq items'
           /\ items' \ items = {resp'.item[1]}
           /\ Cardinality(items') = Cardinality(items) + 1
      /\ (resp'.op \in {"get", "list"} /\ resp' # resp) => items' = items
      /\ (pending = Nil) # (pending' = Nil) => items' = items ]_vars

\* an Update of one of two rows at a later time than both were created:
\* the other row is as its Create left it
C28_Witness ==
  /\ resp.op = "update"
  /\ resp.err = NoErr
  /\ resp.item[1].updated_at > resp.item[1].created_at
  /\ resp.item[1] \in items
  /\ \E r \in Others(items, resp.id) :
       /\ r.name = "a"
       /\ r.updated_at = r.created_at
       /\ r.created_at >= resp.item[1].created_at


\* ------------------------------------------------------ bounds of a page
\* C29: every List that returns a page, whatever was asked for and whatever
\* other calls ran between its two statements, reports a limit from 1 to
\* 100 and an offset of 0 or more, and returns no more items than the limit.
C29_PageWithinBounds ==
  Listed =>
    /\ 1 <= resp.limit
    /\ resp.limit <= 100
    /\ resp.offset >= 0
    /\ Len(resp.items) <= resp.limit

\* a List asked for with a limit of 0 or less and an offset below 0, a row
\* written between its count and its select
C29_Witness ==
  /\ Listed
  /\ resp.written
  /\ resp.reqLimit <= 0
  /\ resp.reqOffset < 0
  /\ resp.limit = DefaultLimit
  /\ resp.offset = 0
  /\ Len(resp.items) = MaxIds


\* ------------------------------------------- validation order of updates
\* the answer r of handleUpdateItem is the one its checks give, in their
\* order: the id, then the body, then the fields, and only then the Store
ValidatedInOrder(r) ==
  LET id == ParseUUID(r.input.id)
      body == r.input.body
      rejected(text) == /\ r.status = StatusBadRequest
                        /\ r.error = text
                        /\ r.store = Nil
  IN /\ id = Nil => rejected("Invalid item ID format")
     /\ (id # Nil /\ ~body.ok) => rejected("Invalid request format")
     /\ (id # Nil /\ body.ok /\ NoFields(body)) =>
          rejected("At least one field (name or description) must be provided")
     /\ (id # Nil /\ ~NoFields(body)) => r.store # Nil
     /\ r.status = StatusNotFound => r.store # Nil

\* the answer r is the answer to a PUT /items/:id request
PutItem(r) ==
  /\ r.op # "none"
  /\ r.request # Nil
  /\ r.request[1].method = "PUT"
  /\ Len(r.request[1].path) = 2
  /\ r.request[1].path[1] = "items"

\* C30: an update is validated in a fixed order before the Store is
\* touched: unparsable id, then unbindable body, then neither name nor
\* description, each answered 400; a PUT /items/:id is answered 404 only
\* after the Store's update statement found no row, never before it.
C30_UpdateValidatedInOrder ==
  /\ resp.op = "handleUpdateItem" => ValidatedInOrder(resp)
  /\ PutItem(resp) => (resp.status = StatusNotFound => resp.store # Nil)

\* C30 on the handler alone: handleUpdateItem called with an id of no item
\* and a body without fields answers 400 and not 404, and answers 404 only
\* after calling the Store.
C30_HandlerValidatesInOrder ==
  resp.op = "handleUpdateItem" => ValidatedInOrder(resp)

\* handleUpdateItem called with a well-formed id of no item and no fields
C30_HandlerWitness ==
  /\ resp.op = "handleUpdateItem"
  /\ ParseUUID(resp.input.id) # Nil
  /\ ParseUUID(resp.input.id)[1] \notin Ids(items)
  /\ resp.input.body.ok
  /\ NoFields(resp.input.body)
  /\ resp.status = StatusBadRequest


\* ----------------------------------------------------------- cancellation
Aborted == {"aborted", "aborted_late"}

C24_GracefulShutdown ==
  /\ [][ /\ proc.pc \notin {"serving", "signalled"} =>
              proc'.inflight <= proc.inflight
         /\ (proc.pc = "shutdown" /\ proc'.pc # "shutdown") =>
              /\ proc.inflight = 0 \/ proc.timer = ShutdownTimeout
              /\ proc'.pc = IF proc.inflight = 0 THEN "drained" ELSE "forced"
         /\ (proc.pc # "exited" /\ proc'.pc = "exited") =>
              IF proc.inflight = 0
              THEN proc'.status = 0 /\ ~proc.dbOpen /\ proc.timer < ShutdownTimeout
              ELSE proc'.status = 1 /\ proc.timer = ShutdownTimeout
         /\ proc.pc = "exited" => proc' = proc ]_vars
  /\ (proc.pc = "signalled") ~> (proc.pc = "exited")

\* a process that got SIGTERM with two requests being served, both answered
\* in the last second before the timeout: it has closed the database
\* handle and exited with status 0
C24_Witness ==
  /\ proc.pc = "exited"
  /\ proc.sig = "SIGTERM"
  /\ proc.status = 0
  /\ proc.timer = ShutdownTimeout - 1
  /\ ~proc.dbOpen
  /\ proc.inflight = 0


====
